---- MODULE Spec2Model ----
(***************************************************************************)
(* bbfmux (src/src/bbfenc.cpp): the command-line muxer / reader of the     *)
(* Bound Book Format.  The model follows main(): argument parsing, then    *)
(* either the reader branch (BBFReader::open, --info, --verify, --extract) *)
(* or the mux branch (input expansion, sort, addPage, section requests,    *)
(* finalize).  BBFBuilder lives in libbbf.h / libbbf.cpp, which are not    *)
(* part of the sources at hand; it is modelled from the format description.*)
(*                                                                         *)
(* Strings are sequences of character codes.  A container file is kept as  *)
(* its parsed tables; an asset entry carries the bytes found in its byte   *)
(* range (data) next to the hash stored for it.  Table and asset offsets   *)
(* of a full-size file are taken to lie inside the file; a file shorter    *)
(* than header plus footer is modelled by size = "short".                  *)
(***************************************************************************)
EXTENDS Integers, Sequences, FiniteSets, TLC

(* ------------------------------ bounds -------------------------------- *)
\* Number of distinct 64-bit hash values of the model; contents 0..HashMod,
\* so that exactly one pair of different contents shares a hash.
HashMod == 2
\* Longest list of command-line inputs (image files / directories) of a mux run.
MaxInputs == 2
\* Most --section requests of a mux run.
MaxSecReqs == 3
\* Most assets of a container handed to --verify.
MaxAssets == 3
\* Pages of the containers handed to --extract in the range scenarios.
MaxPages == 3

(* ------------------------- program constants -------------------------- *)
NUL == 0
QUOTE == 34
DOT == 46
SLASH == 47
MINUS == 45
PLUS == 43
TYPE_AVIF == 1
TYPE_PNG == 2
\* Exit status of a process ended by std::terminate (uncaught exception) or
\* by a fault; RUNNING marks a process that has not exited.
ABORTED == 134
RUNNING == -1
\* The format version this reader is written for.
SupportedVersion == 1

(* ------------------------- 32-bit unsigned values ---------------------- *)
\* A uint32_t is kept as <<high half, low half>>, each half in 0..65535.
W16 == 65536
u32(n) == <<n \div W16, n % W16>>
NoParent == <<W16 - 1, W16 - 1>>
U32Lt(a, b) == a[1] < b[1] \/ (a[1] = b[1] /\ a[2] < b[2])
U32Add1(a) ==
    IF a[2] < W16 - 1 THEN <<a[1], a[2] + 1>>
    ELSE IF a[1] < W16 - 1 THEN <<a[1] + 1, 0>>
    ELSE <<0, 0>>
U32Sub1(a) ==
    IF a[2] > 0 THEN <<a[1], a[2] - 1>>
    ELSE IF a[1] > 0 THEN <<a[1] - 1, W16 - 1>>
    ELSE <<W16 - 1, W16 - 1>>
\* (uint32_t) of an int: negative values wrap to 2^32 + n.
U32OfInt(n) ==
    IF n >= 0 THEN u32(n)
    ELSE LET m == (n + 2147483647) + 1
         IN <<(m \div W16) + 32768, m % W16>>
\* Whether a uint32_t indexes a vector of the given length, and the 1-based
\* position it names then.
U32Below(a, len) == a[1] = 0 /\ a[2] < len
Pos(a) == a[2] + 1

OFFSET_ERR == <<79, 70, 70, 83, 69, 84, 95, 69, 82, 82>>
MAGIC == "BBF1"

Content == 0..HashMod

(* ------------------------------ helpers ------------------------------- *)
\* XXH3_64bits over a buffer: a many-to-one map from contents to hash values
\* (never 0 here, so a zeroed asset record never matches by accident).
XXH3_64bits(c) == (c % HashMod) + 1

trimQuotes(s) ==
    IF Len(s) >= 2 /\ s[1] = QUOTE /\ s[Len(s)] = QUOTE
    THEN SubSeq(s, 2, Len(s) - 1)
    ELSE s

\* std::string(const char *): the characters from position `from` (1-based)
\* up to, not including, the first NUL.
RECURSIVE CStr(_, _)
CStr(mem, from) ==
    IF from > Len(mem) \/ mem[from] = NUL
    THEN <<>>
    ELSE <<mem[from]>> \o CStr(mem, from + 1)

\* BBFReader::getString.  The pool buffer is followed in memory by `heap`
\* (indeterminate bytes); a pool without a final NUL is read on into them.
getString(stringPool, heap, offset) ==
    IF offset >= Len(stringPool)
    THEN OFFSET_ERR
    ELSE CStr(stringPool \o heap \o <<NUL>>, offset + 1)

\* The inner loop of extract: the start page of the first later section that
\* starts after `from` under the same parent, else the default.
RECURSIVE EndScan(_, _, _, _, _)
EndScan(sections, j, from, myParent, dflt) ==
    IF j > Len(sections)
    THEN dflt
    ELSE IF U32Lt(from, sections[j].sectionStartIndex)
            /\ sections[j].parentSectionIndex = myParent
         THEN sections[j].sectionStartIndex
         ELSE EndScan(sections, j + 1, from, myParent, dflt)

\* The outer loop of extract: 1-based position of the first section whose
\* title, read through getString and trimQuotes, equals the target; 0 if none.
RECURSIVE FindSection(_, _, _, _, _)
FindSection(sections, stringPool, heap, target, i) ==
    IF i > Len(sections)
    THEN 0
    ELSE IF trimQuotes(getString(stringPool, heap, sections[i].sectionTitleOffset)) = target
         THEN i
         ELSE FindSection(sections, stringPool, heap, target, i + 1)

\* The extension of an output file.
ExtOf(type) == IF type = TYPE_AVIF THEN ".avif" ELSE ".png"

\* The next asset index of the verify loop.
VerifyAdvanceBreak(i, n, mismatch) == IF mismatch THEN n ELSE i + 1
VerifyAdvance(i, n, mismatch) == i + 1

\* The clean flag of the verify loop after one comparison.
VerifyClean(cleanNow, mismatch) == IF mismatch THEN FALSE ELSE cleanNow

\* std::stoi on a short token: optional sign, then the leading digits;
\* no digit: std::invalid_argument.  Trailing characters are ignored.
IsDigit(c) == c >= 48 /\ c <= 57
RECURSIVE DigitsValue(_, _, _)
DigitsValue(s, i, acc) ==
    IF i > Len(s) \/ ~IsDigit(s[i])
    THEN acc
    ELSE DigitsValue(s, i + 1, acc * 10 + (s[i] - 48))
stoi(s) ==
    LET signed == Len(s) >= 1 /\ s[1] \in {MINUS, PLUS}
        first == IF signed THEN 2 ELSE 1
        hasDigit == first <= Len(s) /\ IsDigit(s[first])
        mag == DigitsValue(s, first, 0)
    IN [ok |-> hasDigit,
        val |-> IF signed /\ s[1] = MINUS THEN 0 - mag ELSE mag]

\* std::string operator< : lexicographic order on character codes.
RECURSIVE LexLess(_, _)
LexLess(a, b) ==
    IF b = <<>> THEN FALSE
    ELSE IF a = <<>> THEN TRUE
    ELSE IF a[1] # b[1] THEN a[1] < b[1]
    ELSE LexLess(Tail(a), Tail(b))

\* std::sort(imagePaths.begin(), imagePaths.end()), as an insertion sort.
RECURSIVE InsertPath(_, _)
InsertPath(sorted, p) ==
    IF sorted = <<>> THEN <<p>>
    ELSE IF LexLess(p, sorted[1]) THEN <<p>> \o sorted
    ELSE <<sorted[1]>> \o InsertPath(Tail(sorted), p)
RECURSIVE SortFrom(_, _)
SortFrom(sorted, rest) ==
    IF rest = <<>> THEN sorted
    ELSE SortFrom(InsertPath(sorted, rest[1]), Tail(rest))
SortPathsOmitted(paths) == paths
SortPaths(paths) == SortFrom(<<>>, paths)

\* fs::path(p).extension(): from the last dot of the file name on.
RECURSIVE LastOf(_, _, _)
LastOf(p, c, i) ==
    IF i = 0 THEN 0
    ELSE IF p[i] = c THEN i
    ELSE LastOf(p, c, i - 1)
extension(p) ==
    LET dot == LastOf(p, DOT, Len(p))
    IN IF dot = 0 \/ dot < LastOf(p, SLASH, Len(p)) \/ dot = LastOf(p, SLASH, Len(p)) + 1
       THEN <<>>
       ELSE SubSeq(p, dot, Len(p))
DotAvifLower == <<46, 97, 118, 105, 102>>
DotAvifUpper == <<46, 65, 86, 73, 70>>
TypeOfPath(p) ==
    IF extension(p) = DotAvifLower \/ extension(p) = DotAvifUpper
    THEN TYPE_AVIF
    ELSE TYPE_PNG

(* ------------------------ the files of the model ---------------------- *)
PathA == <<97, 46, 97, 118, 105, 102>>
PathB == <<98, 46, 112, 110, 103>>
DirD == <<100>>
PathDA == <<100, 47, 97, 46, 112, 110, 103>>
PathDB == <<100, 47, 98, 46, 65, 86, 73, 70>>
OutPath == <<111, 46, 98, 98, 102>>
ImageFiles == {PathA, PathB, PathDA, PathDB}
DirEntries == {PathDA, PathDB}
is_directory(p) == p = DirD

\* imagePaths before the sort: every input, a directory replaced by its
\* entries in the order the directory iterator lists them.
RECURSIVE Expand(_, _)
Expand(paths, listing) ==
    IF paths = <<>> THEN <<>>
    ELSE (IF is_directory(paths[1]) THEN listing ELSE <<paths[1]>>)
         \o Expand(Tail(paths), listing)

(* ----------------- BBFBuilder (libbbf), from the format --------------- *)
NewBuilder ==
    [stringPool |-> <<>>, assets |-> <<>>, pages |-> <<>>, sections |-> <<>>,
     dedupeMap |-> <<>>, finalized |-> FALSE]

\* addPage: hash the bytes; a known hash reuses its asset, else a new asset
\* entry is appended; one page entry either way.
addPage(b, bytes, type) ==
    LET h == XXH3_64bits(bytes)
    IN IF h \in DOMAIN b.dedupeMap
       THEN [b EXCEPT !.pages = Append(@, b.dedupeMap[h])]
       ELSE [b EXCEPT !.assets = Append(@, [data |-> bytes, hash |-> h, type |-> type]),
                      !.pages = Append(@, Len(b.assets)),
                      !.dedupeMap = (h :> Len(b.assets)) @@ @]

\* addSection: the title goes to the string pool, NUL-terminated; one
\* section record is appended.
addSection(b, title, startPageIndex, parentIndex) ==
    [b EXCEPT !.stringPool = @ \o title \o <<NUL>>,
              !.sections = Append(@, [sectionTitleOffset |-> Len(b.stringPool),
                                      sectionStartIndex |-> startPageIndex,
                                      parentSectionIndex |-> parentIndex])]

\* The file finalize leaves behind.
Finalized(b) ==
    [present |-> TRUE, hdrMagic |-> MAGIC, version |-> SupportedVersion,
     ftrMagic |-> MAGIC, size |-> "full", stringPool |-> b.stringPool,
     assets |-> b.assets, pages |-> b.pages, sections |-> b.sections]

(* ------------------------------- state -------------------------------- *)
VARIABLES
    disk,           \* the container file named by inputs[0] / outputBbf
    heapTail,       \* memory that follows the reader's string pool buffer
    fs,             \* contents of the image files, by path
    modeInfo, modeVerify, modeExtract,
    secArgs,        \* the --section arguments, each split at ':'
    targetSection,
    inputs,         \* positional arguments
    secReqs,        \* the SecReq records of a mux run
    pc, exitCode,
    reader,         \* BBFReader after open: header, pool and tables
    shown,          \* --info: the section lines printed
    vi, clean, mismatches, passed,
    found, start, end, xi, outFiles,
    imagePaths, builder, sectionNameToIdx, sectionCounter, pgi, si,
    muxedFrom       \* the positional arguments of the mux run before this run

argVars == <<modeInfo, modeVerify, modeExtract, secArgs, targetSection, inputs, secReqs>>
envVars == <<heapTail, fs, muxedFrom>>
infoVars == <<shown>>
verifyVars == <<vi, clean, mismatches, passed>>
extractVars == <<found, start, end, xi, outFiles>>
muxVars == <<imagePaths, builder, sectionNameToIdx, sectionCounter, pgi, si>>
vars == <<disk, heapTail, fs, modeInfo, modeVerify, modeExtract, secArgs,
          targetSection, inputs, secReqs, pc, exitCode, reader, shown, vi,
          clean, mismatches, passed, found, start, end, xi, outFiles,
          imagePaths, builder, sectionNameToIdx, sectionCounter, pgi, si,
          muxedFrom>>

Closed ==
    [opened |-> FALSE, version |-> 0, stringPool |-> <<>>, assets |-> <<>>,
     pages |-> <<>>, sections |-> <<>>]

NoFile ==
    [present |-> FALSE, hdrMagic |-> "", version |-> 0, ftrMagic |-> "",
     size |-> "short", stringPool |-> <<>>, assets |-> <<>>, pages |-> <<>>,
     sections |-> <<>>]

\* The order in which main runs the requested reader steps.
PhaseAfter(k) ==
    IF k < 1 /\ modeInfo THEN "info"
    ELSE IF k < 2 /\ modeVerify THEN "verify"
    ELSE IF k < 3 /\ modeExtract THEN "extract"
    ELSE "ret"

(* --------------------------- argument parsing ------------------------- *)
\* Whether a --section argument makes std::stoi throw: a request of two or
\* more parts, outside extract mode, whose page part holds no number.
SectionArgThrows(parts) ==
    /\ ~modeExtract
    /\ Len(parts) >= 2
    /\ ~stoi(parts[2]).ok

\* The SecReq built from a --section argument of two or more parts.
SecReqOf(parts) ==
    [name |-> trimQuotes(parts[1]),
     page |-> U32OfInt(stoi(parts[2]).val),
     parent |-> IF Len(parts) >= 3 THEN trimQuotes(parts[3]) ELSE <<>>]

RECURSIVE SecReqsOf(_)
SecReqsOf(args) ==
    IF args = <<>> THEN <<>>
    ELSE (IF Len(args[1]) >= 2 THEN <<SecReqOf(args[1])>> ELSE <<>>)
         \o SecReqsOf(Tail(args))

\* main: the argument loop.  The mode flags stand before the --section
\* arguments on the command line; in extract mode the last --section sets
\* the target, otherwise each one of two or more parts adds a SecReq.
ParseArgs ==
    /\ pc = "start"
    /\ \A k \in 1..Len(secArgs) : ~SectionArgThrows(secArgs[k])
    /\ IF modeExtract
       THEN /\ targetSection' = IF secArgs = <<>> THEN <<>>
                                ELSE trimQuotes(secArgs[Len(secArgs)][1])
            /\ UNCHANGED secReqs
       ELSE /\ secReqs' = SecReqsOf(secArgs)
            /\ UNCHANGED targetSection
    /\ pc' = "dispatch"
    /\ UNCHANGED <<disk, envVars, modeInfo, modeVerify, modeExtract, secArgs,
                   inputs, exitCode, reader, infoVars, verifyVars, extractVars,
                   muxVars>>

\* main: std::stoi throws on a page part without a number; nothing catches
\* it and the process is terminated.
ParseAbort ==
    /\ pc = "start"
    /\ \E k \in 1..Len(secArgs) : SectionArgThrows(secArgs[k])
    /\ pc' = "done"
    /\ exitCode' = ABORTED
    /\ UNCHANGED <<disk, envVars, argVars, reader, infoVars, verifyVars,
                   extractVars, muxVars>>

(* ---------------------------- reader branch --------------------------- *)
\* main: a mode flag is set but no positional argument names the container.
NoInput ==
    /\ pc = "dispatch"
    /\ modeInfo \/ modeVerify \/ modeExtract
    /\ inputs = <<>>
    /\ pc' = "done"
    /\ exitCode' = 1
    /\ UNCHANGED <<disk, envVars, argVars, reader, infoVars, verifyVars,
                   extractVars, muxVars>>

StartRead ==
    /\ pc = "dispatch"
    /\ modeInfo \/ modeVerify \/ modeExtract
    /\ inputs # <<>>
    /\ pc' = "open"
    /\ UNCHANGED <<disk, envVars, argVars, exitCode, reader, infoVars,
                   verifyVars, extractVars, muxVars>>

\* BBFReader::open returns true on a file that holds a whole header and
\* footer: both magics are right.  The version byte is not looked at.
OpenAccepts(d) ==
    /\ d.present
    /\ d.size = "full"
    /\ d.hdrMagic = MAGIC
    /\ d.ftrMagic = MAGIC

\* A file shorter than header plus footer whose header magic is right.
OpenIndeterminate(d) ==
    /\ d.present
    /\ d.size = "short"
    /\ d.hdrMagic = MAGIC

OpenOk ==
    /\ pc = "open"
    /\ OpenAccepts(disk)
    /\ reader' = [opened |-> TRUE, version |-> disk.version,
                  stringPool |-> disk.stringPool, assets |-> disk.assets,
                  pages |-> disk.pages, sections |-> disk.sections]
    /\ pc' = PhaseAfter(0)
    /\ UNCHANGED <<disk, envVars, argVars, exitCode, infoVars, verifyVars,
                   extractVars, muxVars>>

\* open returns false (no file, bad header magic, bad footer magic); main
\* prints the error and returns 1.
OpenFail ==
    /\ pc = "open"
    /\ ~OpenAccepts(disk)
    /\ ~OpenIndeterminate(disk)
    /\ pc' = "done"
    /\ exitCode' = 1
    /\ UNCHANGED <<disk, envVars, argVars, reader, infoVars, verifyVars,
                   extractVars, muxVars>>

\* open on a file shorter than header plus footer whose header magic is
\* right: fileSize - sizeof(BBFFooter) wraps, the footer read fails and
\* `footer` keeps its indeterminate bytes.  The magic test then goes either
\* way; if it passes, the offsets and counts are indeterminate too, resize
\* may throw, and every later read fails and leaves zero-filled records.
OpenShort ==
    /\ pc = "open"
    /\ OpenIndeterminate(disk)
    /\ \E outcome \in {"false", "throw", "true"}, n \in 0..1 :
          IF outcome = "false"
          THEN /\ pc' = "done" /\ exitCode' = 1 /\ UNCHANGED reader
          ELSE IF outcome = "throw"
          THEN /\ pc' = "done" /\ exitCode' = ABORTED /\ UNCHANGED reader
          ELSE /\ reader' =
                    [opened |-> TRUE, version |-> disk.version,
                     stringPool |-> [k \in 1..n |-> NUL],
                     assets |-> [k \in 1..n |-> [data |-> 0, hash |-> 0, type |-> 0]],
                     pages |-> [k \in 1..n |-> 0],
                     sections |-> [k \in 1..n |->
                                     [sectionTitleOffset |-> 0,
                                      sectionStartIndex |-> u32(0),
                                      parentSectionIndex |-> u32(0)]]]
               /\ pc' = PhaseAfter(0)
               /\ UNCHANGED exitCode
    /\ UNCHANGED <<disk, envVars, argVars, infoVars, verifyVars, extractVars,
                   muxVars>>

\* --info: one line per section, title and 1-based starting page.
Info ==
    /\ pc = "info"
    /\ shown' = [i \in 1..Len(reader.sections) |->
                   [title |-> getString(reader.stringPool, heapTail,
                                        reader.sections[i].sectionTitleOffset),
                    page |-> U32Add1(reader.sections[i].sectionStartIndex)]]
    /\ pc' = PhaseAfter(1)
    /\ UNCHANGED <<disk, envVars, argVars, exitCode, reader, verifyVars,
                   extractVars, muxVars>>

\* --verify: one pass of the loop over the asset table.
VerifyStep ==
    /\ pc = "verify"
    /\ vi < Len(reader.assets)
    /\ LET a == reader.assets[vi + 1]
           mismatch == XXH3_64bits(a.data) # a.hash
       IN /\ mismatches' = IF mismatch THEN mismatches \cup {vi} ELSE mismatches
          /\ clean' = VerifyClean(clean, mismatch)
          /\ vi' = VerifyAdvance(vi, Len(reader.assets), mismatch)
    /\ UNCHANGED <<disk, envVars, argVars, pc, exitCode, reader, infoVars,
                   passed, extractVars, muxVars>>

\* --verify: the loop is over; "Integrity Check Passed." is printed if clean.
VerifyDone ==
    /\ pc = "verify"
    /\ vi >= Len(reader.assets)
    /\ passed' = clean
    /\ pc' = PhaseAfter(2)
    /\ UNCHANGED <<disk, envVars, argVars, exitCode, reader, infoVars, vi,
                   clean, mismatches, extractVars, muxVars>>

\* The section position extract settles on (1-based; 0: none).
MatchedSection ==
    FindSection(reader.sections, reader.stringPool, heapTail, targetSection, 1)

\* --extract: the page range, for the whole book or for the target section.
ResolveRange ==
    /\ pc = "extract"
    /\ targetSection = <<>> \/ MatchedSection # 0
    /\ IF targetSection = <<>>
       THEN /\ start' = u32(0)
            /\ end' = u32(Len(reader.pages))
            /\ UNCHANGED found
       ELSE LET s == reader.sections[MatchedSection]
            IN /\ start' = s.sectionStartIndex
               /\ end' = EndScan(reader.sections, MatchedSection + 1,
                                 s.sectionStartIndex, s.parentSectionIndex,
                                 u32(Len(reader.pages)))
               /\ found' = TRUE
    /\ xi' = start'
    /\ pc' = "write"
    /\ UNCHANGED <<disk, envVars, argVars, exitCode, reader, infoVars,
                   verifyVars, outFiles, muxVars>>

\* --extract: no section bears the target name; main returns 1.
SectionNotFound ==
    /\ pc = "extract"
    /\ targetSection # <<>>
    /\ MatchedSection = 0
    /\ pc' = "done"
    /\ exitCode' = 1
    /\ UNCHANGED <<disk, envVars, argVars, reader, infoVars, verifyVars,
                   extractVars, muxVars>>

\* Whether page i (0-based) and the asset it names exist.
PageInBounds(i) ==
    /\ U32Below(i, Len(reader.pages))
    /\ reader.pages[Pos(i)] < Len(reader.assets)

\* --extract: one pass of the write loop.
ExtractPage ==
    /\ pc = "write"
    /\ U32Lt(xi, end)
    /\ PageInBounds(xi)
    /\ LET asset == reader.assets[reader.pages[Pos(xi)] + 1]
       IN outFiles' = (<<U32Add1(xi), ExtOf(asset.type)>> :> asset.data) @@ outFiles
    /\ xi' = U32Add1(xi)
    /\ UNCHANGED <<disk, envVars, argVars, pc, exitCode, reader, infoVars,
                   verifyVars, found, start, end, muxVars>>

\* --extract: pages[i] or assets[pages[i].assetIndex] lies outside its
\* vector; what is read is indeterminate: the process dies, or a file with
\* arbitrary bytes is written.
ExtractPageOutOfBounds ==
    /\ pc = "write"
    /\ U32Lt(xi, end)
    /\ ~PageInBounds(xi)
    /\ \E crash \in BOOLEAN, g \in Content, t \in {TYPE_AVIF, TYPE_PNG} :
          IF crash
          THEN /\ pc' = "done" /\ exitCode' = ABORTED
               /\ UNCHANGED <<xi, outFiles>>
          ELSE /\ outFiles' = (<<U32Add1(xi), ExtOf(t)>> :> g) @@ outFiles
               /\ xi' = U32Add1(xi)
               /\ UNCHANGED <<pc, exitCode>>
    /\ UNCHANGED <<disk, envVars, argVars, reader, infoVars, verifyVars,
                   found, start, end, muxVars>>

ExtractDone ==
    /\ pc = "write"
    /\ ~U32Lt(xi, end)
    /\ pc' = "ret"
    /\ UNCHANGED <<disk, envVars, argVars, exitCode, reader, infoVars,
                   verifyVars, extractVars, muxVars>>

\* main: the closing return 0, reached by every branch that did not return
\* earlier.
MainReturn ==
    /\ pc = "ret"
    /\ pc' = "done"
    /\ exitCode' = 0
    /\ UNCHANGED <<disk, envVars, argVars, reader, infoVars, verifyVars,
                   extractVars, muxVars>>

(* ------------------------------ mux branch ---------------------------- *)
\* main: fewer than two positional arguments and no mode flag.
MuxUsage ==
    /\ pc = "dispatch"
    /\ ~(modeInfo \/ modeVerify \/ modeExtract)
    /\ Len(inputs) < 2
    /\ pc' = "done"
    /\ exitCode' = 1
    /\ UNCHANGED <<disk, envVars, argVars, reader, infoVars, verifyVars,
                   extractVars, muxVars>>

\* main: the last positional argument is the output; the builder opens it;
\* the others are expanded and sorted into imagePaths.
MuxStart ==
    /\ pc = "dispatch"
    /\ ~(modeInfo \/ modeVerify \/ modeExtract)
    /\ Len(inputs) >= 2
    /\ \E listing \in {l \in [1..Cardinality(DirEntries) -> DirEntries] :
                         \A e \in DirEntries : \E k \in DOMAIN l : l[k] = e} :
          imagePaths' = SortPaths(Expand(SubSeq(inputs, 1, Len(inputs) - 1), listing))
    /\ builder' = NewBuilder
    /\ disk' = [NoFile EXCEPT !.present = TRUE, !.hdrMagic = MAGIC,
                              !.version = SupportedVersion]
    /\ sectionNameToIdx' = <<>>
    /\ sectionCounter' = 0
    /\ pgi' = 0
    /\ si' = 0
    /\ pc' = "pages"
    /\ UNCHANGED <<envVars, argVars, exitCode, reader, infoVars, verifyVars,
                   extractVars>>

\* mux: one pass of the addPage loop.
AddPage ==
    /\ pc = "pages"
    /\ pgi < Len(imagePaths)
    /\ LET p == imagePaths[pgi + 1]
       IN builder' = addPage(builder, fs[p], TypeOfPath(p))
    /\ pgi' = pgi + 1
    /\ UNCHANGED <<disk, envVars, argVars, pc, exitCode, reader, infoVars,
                   verifyVars, extractVars, imagePaths, sectionNameToIdx,
                   sectionCounter, si>>

\* The parent index stored for a request: the map's entry for the parent
\* name, or the sentinel when the name is empty or not in the map.
ResolveParent(map, parent) ==
    IF parent # <<>> /\ parent \in DOMAIN map
    THEN map[parent]
    ELSE NoParent

\* sectionNameToIdx[name] = idx.
MapPutKeepFirst(map, name, idx) == map @@ (name :> idx)
MapPut(map, name, idx) == (name :> idx) @@ map

\* The start index handed to addSection for a 1-based page.
StartIndexOf(page) == U32Sub1(page)

\* mux: one pass of the section loop (entered when the pages are in).
AddSection ==
    /\ pc = "pages"
    /\ pgi >= Len(imagePaths)
    /\ si < Len(secReqs)
    /\ LET s == secReqs[si + 1]
           parentIdx == ResolveParent(sectionNameToIdx, s.parent)
       IN /\ builder' = addSection(builder, s.name, StartIndexOf(s.page), parentIdx)
          /\ sectionNameToIdx' = MapPut(sectionNameToIdx, s.name, u32(sectionCounter))
    /\ sectionCounter' = sectionCounter + 1
    /\ si' = si + 1
    /\ UNCHANGED <<disk, envVars, argVars, pc, exitCode, reader, infoVars,
                   verifyVars, extractVars, imagePaths, pgi>>

\* mux: finalize writes the tables and the footer.
Finalize ==
    /\ pc = "pages"
    /\ pgi >= Len(imagePaths)
    /\ si >= Len(secReqs)
    /\ builder' = [builder EXCEPT !.finalized = TRUE]
    /\ disk' = Finalized(builder)
    /\ pc' = "ret"
    /\ UNCHANGED <<envVars, argVars, exitCode, reader, infoVars, verifyVars,
                   extractVars, imagePaths, sectionNameToIdx, sectionCounter,
                   pgi, si>>

\* A second run: bbfmux <output.bbf> --extract, on the file just muxed.
RunExtract ==
    /\ pc = "done"
    /\ exitCode = 0
    /\ builder.finalized
    /\ ~modeExtract
    /\ muxedFrom' = inputs
    /\ inputs' = <<inputs[Len(inputs)]>>
    /\ modeExtract' = TRUE
    /\ secArgs' = <<>>
    /\ pc' = "start"
    /\ exitCode' = RUNNING
    /\ UNCHANGED <<disk, heapTail, fs, modeInfo, modeVerify, targetSection,
                   secReqs, reader, infoVars, verifyVars, extractVars, muxVars>>

(* ------------------------- initial states ----------------------------- *)
\* Everything a run starts with besides its arguments and its files.
Fresh ==
    /\ pc = "start"
    /\ exitCode = RUNNING
    /\ targetSection = <<>>
    /\ secReqs = <<>>
    /\ reader = Closed
    /\ shown = <<>>
    /\ vi = 0 /\ clean = TRUE /\ mismatches = {} /\ passed = FALSE
    /\ found = FALSE /\ start = u32(0) /\ end = u32(0) /\ xi = u32(0)
    /\ outFiles = <<>>
    /\ imagePaths = <<>> /\ builder = NewBuilder
    /\ sectionNameToIdx = <<>> /\ sectionCounter = 0 /\ pgi = 0 /\ si = 0
    /\ muxedFrom = <<>>

SeqsUpTo(S, n) == UNION {[1..k -> S] : k \in 0..n}

NameA == <<65>>
NameB == <<66>>
NameC == <<67>>
QuotedA == <<34, 65, 34>>
TwiceQuotedA == <<34, 34, 65, 34, 34>>

FsDefault == [p \in ImageFiles |-> IF p = PathA THEN 1 ELSE 2]

Asset(data, type) == [data |-> data, hash |-> XXH3_64bits(data), type |-> type]
Section(off, startPage, parent) ==
    [sectionTitleOffset |-> off, sectionStartIndex |-> startPage,
     parentSectionIndex |-> parent]
Container(pool, sections, pages, assets) ==
    [present |-> TRUE, hdrMagic |-> MAGIC, version |-> SupportedVersion,
     ftrMagic |-> MAGIC, size |-> "full", stringPool |-> pool,
     assets |-> assets, pages |-> pages, sections |-> sections]

\* String pools of the title scenarios: two plain titles; a title that
\* carries its own quotes; a title that reads OFFSET_ERR; a pool whose last
\* string lacks its NUL.
PoolPlain == NameA \o <<NUL>> \o NameB \o <<NUL>>
PoolQuoted == QuotedA \o <<NUL>> \o NameA \o <<NUL>>
PoolSentinel == NameA \o <<NUL>> \o OFFSET_ERR \o <<NUL>>
PoolOpenEnded == NameA \o <<NUL>> \o NameB
TitlePools == {PoolPlain, PoolQuoted, PoolSentinel, PoolOpenEnded}
HeapTails(pool) ==
    IF pool # <<>> /\ pool[Len(pool)] # NUL THEN {<<>>, NameC} ELSE {<<>>}
RawTargets == {NameA, NameC, QuotedA, TwiceQuotedA, OFFSET_ERR}

\* Two-section containers with any title offsets, read with --extract.
InitTitles ==
    /\ Fresh
    /\ \E pool \in TitlePools :
          /\ \E o1 \in 0..Len(pool), o2 \in 0..Len(pool) :
                disk = Container(pool,
                                 <<Section(o1, u32(0), NoParent),
                                   Section(o2, u32(1), NoParent)>>,
                                 <<0, 1>>,
                                 <<Asset(1, TYPE_PNG), Asset(2, TYPE_AVIF)>>)
          /\ heapTail \in HeapTails(pool)
    /\ fs = FsDefault
    /\ modeInfo \in BOOLEAN /\ modeVerify = FALSE /\ modeExtract = TRUE
    /\ secArgs \in {<<>>} \cup {<< <<t>> >> : t \in RawTargets}
    /\ inputs = <<OutPath>>

\* Three-section containers (titles A, B, C) over MaxPages pages, any start
\* pages up to one past the book, any parent among NoParent and the earlier
\* sections, read with --extract --section=<title>.
PoolABC == NameA \o <<NUL>> \o NameB \o <<NUL>> \o NameC \o <<NUL>>
StartChoices == {u32(n) : n \in 0..(MaxPages + 1)}
ParentChoices(k) == {NoParent} \cup {u32(n) : n \in 0..(k - 2)}
InitRanges ==
    /\ Fresh
    /\ \E s1 \in StartChoices, s2 \in StartChoices, s3 \in StartChoices,
          p2 \in ParentChoices(2), p3 \in ParentChoices(3) :
          disk = Container(PoolABC,
                           <<Section(0, s1, NoParent), Section(2, s2, p2),
                             Section(4, s3, p3)>>,
                           [k \in 1..MaxPages |-> (k - 1) % 2],
                           <<Asset(1, TYPE_PNG), Asset(2, TYPE_AVIF)>>)
    /\ heapTail = <<>>
    /\ fs = FsDefault
    /\ modeInfo = FALSE /\ modeVerify = FALSE /\ modeExtract = TRUE
    /\ secArgs \in {<< <<t>> >> : t \in {NameA, NameB, NameC}}
    /\ inputs = <<OutPath>>

\* Containers of up to MaxAssets assets, each with any bytes in its range
\* and any stored hash, read with --verify.
AssetChoices == [data : Content, hash : 0..HashMod, type : {TYPE_PNG}]
InitAssets ==
    /\ Fresh
    /\ \E assets \in SeqsUpTo(AssetChoices, MaxAssets) :
          disk = Container(<<>>, <<>>, [k \in 1..Len(assets) |-> k - 1], assets)
    /\ heapTail = <<>>
    /\ fs = FsDefault
    /\ modeInfo = FALSE /\ modeVerify = TRUE /\ modeExtract \in BOOLEAN
    /\ secArgs = <<>>
    /\ inputs = <<OutPath>>

\* Files with any header magic, version, footer magic and size class, or no
\* file at all, read under every combination of mode flags.
OpenDisks ==
    {NoFile} \cup
    {[Container(PoolPlain, <<Section(0, u32(0), NoParent)>>, <<0>>,
                <<Asset(1, TYPE_PNG)>>)
        EXCEPT !.hdrMagic = hm, !.version = v, !.ftrMagic = fm, !.size = sz] :
       hm \in {MAGIC, "PNG."}, v \in {SupportedVersion, SupportedVersion + 1},
       fm \in {MAGIC, "IEND"}, sz \in {"full", "short"}}
InitOpen ==
    /\ Fresh
    /\ disk \in OpenDisks
    /\ heapTail = <<>>
    /\ fs = FsDefault
    /\ modeInfo \in BOOLEAN /\ modeVerify \in BOOLEAN /\ modeExtract \in BOOLEAN
    /\ modeInfo \/ modeVerify \/ modeExtract
    /\ secArgs = <<>>
    /\ inputs \in {<<>>, <<OutPath>>}

\* Mux runs over any contents of the image files and any list of up to
\* MaxInputs inputs (files or the directory), without section requests.
InputChoices == {PathA, PathB, DirD}
InitMuxPages ==
    /\ Fresh
    /\ disk = NoFile
    /\ heapTail = <<>>
    /\ fs \in [ImageFiles -> Content]
    /\ modeInfo = FALSE /\ modeVerify = FALSE /\ modeExtract = FALSE
    /\ secArgs = <<>>
    /\ \E ins \in SeqsUpTo(InputChoices, MaxInputs) : inputs = ins \o <<OutPath>>

\* Mux runs of two pages with up to MaxSecReqs --section arguments.
Digit0 == <<48>>
Digit1 == <<49>>
Digit2 == <<50>>
Digit3 == <<51>>
SectionArgChoices ==
    {<<n, Digit1>> : n \in {NameA, NameB}}
    \cup {<<n, Digit2, p>> : n \in {NameA, NameB}, p \in {NameA, NameB, NameC}}
    \cup {<<NameA, Digit0>>, <<NameB, Digit3, NameA>>, <<NameA, <<MINUS, 49>> >>,
          <<NameA, <<120>> >>, <<NameA>>, <<NameB, Digit1, <<>> >>,
          <<QuotedA, Digit2, QuotedA>>}
InitMuxSections ==
    /\ Fresh
    /\ disk = NoFile
    /\ heapTail = <<>>
    /\ fs = FsDefault
    /\ modeInfo = FALSE /\ modeVerify = FALSE /\ modeExtract = FALSE
    /\ secArgs \in SeqsUpTo(SectionArgChoices, MaxSecReqs)
    /\ inputs = <<PathB, PathA, OutPath>>

(* --------------------------- specifications --------------------------- *)
\* The reader: bbfmux <file.bbf> [--info] [--verify] [--extract [--section=..]]
\* over every container and file of the scenarios above.
Init == InitTitles \/ InitRanges \/ InitAssets \/ InitOpen
Next ==
    \/ ParseArgs \/ NoInput \/ StartRead
    \/ OpenOk \/ OpenFail \/ OpenShort
    \/ Info \/ VerifyStep \/ VerifyDone
    \/ ResolveRange \/ SectionNotFound
    \/ ExtractPage \/ ExtractPageOutOfBounds \/ ExtractDone
    \/ MainReturn
Spec == Init /\ [][Next]_vars

\* --extract (with or without --info) on two-section containers whose
\* titles carry no quotes.
TitleInit ==
    /\ InitTitles
    /\ disk.stringPool # PoolQuoted
    /\ secArgs # << <<TwiceQuotedA>> >>
TitleNext ==
    \/ ParseArgs \/ StartRead \/ OpenOk \/ Info
    \/ ResolveRange \/ SectionNotFound \/ ExtractPage \/ ExtractDone
    \/ MainReturn
TitleSpec == TitleInit /\ [][TitleNext]_vars

\* --extract --section on three-section containers listed in reading order
\* (start pages never decrease along the table).
RangeInit ==
    /\ InitRanges
    /\ \A k \in 1..(Len(disk.sections) - 1) :
          ~U32Lt(disk.sections[k + 1].sectionStartIndex,
                 disk.sections[k].sectionStartIndex)
RangeNext ==
    \/ ParseArgs \/ StartRead \/ OpenOk \/ ResolveRange
    \/ ExtractPage \/ ExtractPageOutOfBounds \/ ExtractDone \/ MainReturn
RangeSpec == RangeInit /\ [][RangeNext]_vars

\* --verify (with or without --extract) on well-headed containers.
VerifyNext ==
    \/ ParseArgs \/ StartRead \/ OpenOk \/ VerifyStep \/ VerifyDone
    \/ ResolveRange \/ ExtractPage \/ ExtractDone \/ MainReturn
VerifySpec == InitAssets /\ [][VerifyNext]_vars

\* Every mode on files that hold a whole header and footer, or on no file.
OpenInit == InitOpen /\ (disk.present => disk.size = "full")
OpenNext ==
    \/ ParseArgs \/ NoInput \/ StartRead \/ OpenOk \/ OpenFail
    \/ Info \/ VerifyStep \/ VerifyDone
    \/ ResolveRange \/ ExtractPage \/ ExtractDone \/ MainReturn
OpenSpec == OpenInit /\ [][OpenNext]_vars

\* The muxer, followed by an --extract run on its output.
MuxInit == InitMuxPages \/ InitMuxSections
MuxNext ==
    \/ ParseArgs \/ ParseAbort
    \/ MuxUsage \/ MuxStart \/ AddPage \/ AddSection \/ Finalize
    \/ MainReturn \/ RunExtract
    \/ StartRead \/ OpenOk \/ ResolveRange \/ ExtractPage \/ ExtractDone
MuxSpec == MuxInit /\ [][MuxNext]_vars

(* ------------------- notions the statements are made of --------------- *)
Range(f) == {f[k] : k \in DOMAIN f}
MaxOf(S) == CHOOSE m \in S : \A x \in S : x <= m
MinOf(S) == CHOOSE m \in S : \A x \in S : m <= x

\* The offsets at which a string is interned in a pool: the first byte of
\* the pool or the byte after a NUL, with a NUL closing the string.
InternedStarts(pool) ==
    {o \in 0..(Len(pool) - 1) :
        /\ o = 0 \/ pool[o] = NUL
        /\ \E z \in (o + 1)..Len(pool) : pool[z] = NUL}
HasTitle(k) ==
    reader.sections[k].sectionTitleOffset \in InternedStarts(reader.stringPool)
TitleOf(k) == CStr(reader.stringPool, reader.sections[k].sectionTitleOffset + 1)

\* Positions (1-based) of the sections whose title is the target name.
Bearers == {k \in 1..Len(reader.sections) : HasTitle(k) /\ TitleOf(k) = targetSection}

\* The end page the range of section i is said to have: the start of the
\* first later section with a later start and the same parent, else the
\* page count.
SaidEnd(i) ==
    LET later == {j \in (i + 1)..Len(reader.sections) :
                    /\ U32Lt(reader.sections[i].sectionStartIndex,
                             reader.sections[j].sectionStartIndex)
                    /\ reader.sections[j].parentSectionIndex
                         = reader.sections[i].parentSectionIndex}
    IN IF later = {} THEN u32(Len(reader.pages))
       ELSE reader.sections[MinOf(later)].sectionStartIndex

\* The reader got past open, and is past the named step of main.
PastOpen == reader.opened
PastInfo == PastOpen /\ modeInfo /\ pc \notin {"info"}
PastVerify == PastOpen /\ modeVerify /\ pc \notin {"info", "verify"}
\* Extract settled its range and entered (or finished) the write loop.
RangeResolved == PastOpen /\ modeExtract /\ pc \in {"write", "ret"}
\* Extract ended with "Section not found".
EndedNotFound ==
    /\ PastOpen /\ modeExtract /\ pc = "done" /\ exitCode = 1
    /\ outFiles = <<>> /\ ~found /\ targetSection # <<>>

(* -------------------------------- C1 ---------------------------------- *)
\* C1: in extract, when the target name is the title of some section, the
\* range is that of the first such section i in table order, [start_i, end)
\* with end the start of the first later section j with start_j > start_i
\* and the same parent, or the page count; without a target the range is
\* [0, pageCount).  (Stated on titles as the pool holds them.)
C1_RangeOfNamedSection ==
    /\ RangeResolved /\ targetSection = <<>>
          => start = u32(0) /\ end = u32(Len(reader.pages))
    /\ PastOpen /\ modeExtract /\ targetSection # <<>> /\ Bearers # {}
          => /\ ~EndedNotFound
             /\ RangeResolved
                   => /\ start = reader.sections[MinOf(Bearers)].sectionStartIndex
                      /\ end = SaidEnd(MinOf(Bearers))

\* The range part alone, on the section the reader's own comparison picks:
\* whatever section extract settles on, the range is [start_i, SaidEnd(i)).
RangeOfMatchedSection ==
    RangeResolved /\ targetSection # <<>>
       => /\ MatchedSection # 0
          /\ \A k \in 1..(MatchedSection - 1) :
                trimQuotes(getString(reader.stringPool, heapTail,
                                     reader.sections[k].sectionTitleOffset))
                  # targetSection
          /\ start = reader.sections[MatchedSection].sectionStartIndex
          /\ end = SaidEnd(MatchedSection)

\* The worked example: A(start 0), B(start 5, parent A), C(start 10) over a
\* ten-page book give [0,10), [5,10) and [10,10).
ExampleSections ==
    <<Section(0, u32(0), NoParent), Section(2, u32(5), u32(0)),
      Section(4, u32(10), NoParent)>>
RangeExample ==
    /\ EndScan(ExampleSections, 2, u32(0), NoParent, u32(10)) = u32(10)
    /\ EndScan(ExampleSections, 3, u32(5), u32(0), u32(10)) = u32(10)
    /\ EndScan(ExampleSections, 4, u32(10), NoParent, u32(10)) = u32(10)

(* -------------------------------- C5 ---------------------------------- *)
\* C5: extract with a target name that is the title of no section ends
\* with exit code 1, never enters the write loop and writes no file.
C5_UnknownSectionFails ==
    PastOpen /\ modeExtract /\ targetSection # <<>> /\ Bearers = {}
       => /\ pc \notin {"write", "ret"}
          /\ outFiles = <<>>
          /\ pc = "done" => exitCode = 1

(* -------------------------------- C9 ---------------------------------- *)
\* C9: a string-pool lookup gives the interned string when the offset is
\* the start of one, and the out-of-range failure for every other offset;
\* no interned string reads like the failure.  (Seen on the titles --info
\* prints.)
C9_LookupChecked ==
    PastInfo =>
       \A k \in 1..Len(reader.sections) :
          IF HasTitle(k)
          THEN shown[k].title = TitleOf(k) /\ shown[k].title # OFFSET_ERR
          ELSE shown[k].title = OFFSET_ERR

(* -------------------------------- C6 ---------------------------------- *)
\* C6: open succeeds only on a file with the right header magic, a valid
\* version, the right footer magic and no short read; after a failed open
\* no table is read and no info, verify or extract step is run.
C6_OpenValidates ==
    /\ reader.opened
          => /\ disk.present
             /\ disk.hdrMagic = MAGIC
             /\ disk.version = SupportedVersion
             /\ disk.ftrMagic = MAGIC
             /\ disk.size = "full"
    /\ ~reader.opened
          => /\ pc \notin {"info", "verify", "extract", "write"}
             /\ shown = <<>> /\ vi = 0 /\ mismatches = {} /\ ~passed
             /\ outFiles = <<>>

(* ------------------------------ C3, C4 -------------------------------- *)
\* The asset indices (0-based) whose bytes do not hash to the stored hash.
Mismatching ==
    {k \in 0..(Len(reader.assets) - 1) :
        XXH3_64bits(reader.assets[k + 1].data) # reader.assets[k + 1].hash}

\* C3: when verify is over, every asset was compared: the indices reported
\* are exactly those whose recomputed hash differs from the stored one, and
\* "Integrity Check Passed" is printed exactly when there is none.
C3_VerifyReportsAll ==
    PastVerify
       => /\ vi = Len(reader.assets)
          /\ mismatches = Mismatching
          /\ passed <=> (Mismatching = {})

\* A verify run over three assets where the first and the last mismatch and
\* the one between them does not.
C3_Witness ==
    /\ PastVerify /\ pc = "done"
    /\ Len(reader.assets) = 3
    /\ mismatches = {0, 2}
    /\ ~passed

\* C4: a verify run exits with a non-zero code when some asset mismatches,
\* and with 0 only when none does.
C4_VerifyExitCode ==
    PastVerify /\ pc = "done"
       => (exitCode = 0 <=> Mismatching = {})

(* -------------------------------- C10 --------------------------------- *)
\* The data-model invariants of a section table.
TableWellFormed ==
    \A k \in 1..Len(reader.sections) :
       /\ U32Lt(reader.sections[k].sectionStartIndex, u32(Len(reader.pages)))
       /\ \/ reader.sections[k].parentSectionIndex = NoParent
          \/ U32Below(reader.sections[k].parentSectionIndex, k - 1)

\* C10: in a well-formed table, the range resolved for a child section lies
\* within the range resolved for its parent.
C10_ChildWithinParent ==
    /\ RangeResolved /\ targetSection # <<>> /\ TableWellFormed
    /\ MatchedSection # 0
    /\ reader.sections[MatchedSection].parentSectionIndex # NoParent
    => LET parent == Pos(reader.sections[MatchedSection].parentSectionIndex)
           parentStart == reader.sections[parent].sectionStartIndex
           parentEnd == EndScan(reader.sections, parent + 1, parentStart,
                                reader.sections[parent].parentSectionIndex,
                                u32(Len(reader.pages)))
       IN /\ ~U32Lt(start, parentStart)
          /\ ~U32Lt(parentEnd, end)

(* -------------------------------- mux --------------------------------- *)
\* The mux run has written its file (and no later run has started).
MuxWritten == builder.finalized /\ muxedFrom = <<>>

\* C7: every section mux writes has startPageIndex < pageCount, whatever
\* 1-based page number the request gives.
C7_SectionStartsInBook ==
    MuxWritten =>
       \A k \in 1..Len(disk.sections) :
          U32Lt(disk.sections[k].sectionStartIndex, u32(Len(disk.pages)))

\* The parent index request k (1-based) is said to get: the table index of
\* the latest earlier request bearing the parent name, else the sentinel.
SaidParent(k) ==
    LET earlier == {j \in 1..(k - 1) : secReqs[j].name = secReqs[k].parent}
    IN IF secReqs[k].parent = <<>> \/ earlier = {}
       THEN NoParent
       ELSE u32(MaxOf(earlier) - 1)

\* C8: the parent index stored for the k-th request is the table index of
\* the most recently added earlier section bearing the requested parent
\* name, and the sentinel when that name is empty or borne by none; so a
\* stored parent always names a strictly earlier position, and a name that
\* does not resolve never keeps mux from writing its file and returning 0.
C8_ParentResolution ==
    /\ pc \in {"pages", "ret", "done"} /\ muxedFrom = <<>> /\ exitCode # ABORTED
       /\ ~modeExtract /\ Len(inputs) >= 2
          => \A k \in 1..Len(builder.sections) :
                /\ builder.sections[k].parentSectionIndex = SaidParent(k)
                /\ \/ builder.sections[k].parentSectionIndex = NoParent
                   \/ U32Below(builder.sections[k].parentSectionIndex, k - 1)
    /\ pc = "done" /\ muxedFrom = <<>> /\ exitCode # ABORTED
       /\ ~modeExtract /\ Len(inputs) >= 2
          => /\ exitCode = 0
             /\ builder.finalized
             /\ Len(disk.sections) = Len(secReqs)
             /\ disk.sections = builder.sections

\* A written file of three sections: two named alike, then one asking for
\* that name as parent (it gets the later one), after a request whose
\* parent name nobody bears.
C8_Witness ==
    /\ MuxWritten /\ pc = "done" /\ exitCode = 0
    /\ Len(disk.sections) = 3
    /\ secReqs[1].name = secReqs[2].name
    /\ secReqs[3].parent = secReqs[1].name
    /\ disk.sections[3].parentSectionIndex = u32(1)
    /\ secReqs[2].parent # <<>>
    /\ disk.sections[2].parentSectionIndex = NoParent

\* The image paths of the mux run in the order the directory was listed,
\* and the path that comes k-th when they are put in lexicographic order.
MuxedPaths ==
    Expand(SubSeq(muxedFrom, 1, Len(muxedFrom) - 1), <<PathDB, PathDA>>)
KthPath(k) ==
    CHOOSE p \in Range(MuxedPaths) :
       /\ Cardinality({i \in DOMAIN MuxedPaths : LexLess(MuxedPaths[i], p)}) < k
       /\ k <= Cardinality({i \in DOMAIN MuxedPaths : ~LexLess(p, MuxedPaths[i])})

\* The extract run on the muxed file is over.
RoundTripDone == muxedFrom # <<>> /\ pc = "done"

\* One output file per input page, file k holding the bytes of the k-th
\* input in lexicographic order.
PagesReproduced ==
    /\ exitCode = 0
    /\ Cardinality(DOMAIN outFiles) = Len(MuxedPaths)
    /\ \A k \in 1..Len(MuxedPaths) :
          \E name \in DOMAIN outFiles :
             /\ name[1] = u32(k)
             /\ outFiles[name] = fs[KthPath(k)]

\* No two inputs of the run with different bytes share a content hash.
NoHashCollision ==
    \A p \in Range(MuxedPaths), q \in Range(MuxedPaths) :
       XXH3_64bits(fs[p]) = XXH3_64bits(fs[q]) => fs[p] = fs[q]

\* C2 (as stated): for any list of input images, mux then extract of the
\* whole book writes one file per input page, file k byte-identical to the
\* k-th input in lexicographic order, shared assets included.
C2_RoundTripAnyInputs == RoundTripDone => PagesReproduced

\* C2 (amended): the same, for input lists in which no two images with
\* different bytes have the same content hash.
C2_RoundTrip == RoundTripDone /\ NoHashCollision => PagesReproduced

\* A round trip of three pages given out of order, two of them with the same
\* bytes and sharing one asset.
C2_Witness ==
    /\ RoundTripDone /\ NoHashCollision /\ PagesReproduced
    /\ Len(disk.pages) = 3 /\ Len(disk.assets) = 2
    /\ LexLess(muxedFrom[2], muxedFrom[1])

====
